---- MODULE Spec2Model ----
(***************************************************************************)
(* follow_streams: reachability_filter (src/src/follow_streams/main.py)    *)
(* and, further down, flatten (src/run.py).                                *)
(*                                                                         *)
(* One coordinator process runs the while loop of reachability_filter; a   *)
(* ProcessPoolExecutor runs find_neighbors tasks in forked workers; the    *)
(* module-global multiprocessing queue g_frontier carries row labels from  *)
(* the workers (and from the coordinator itself, for the seed) back to     *)
(* the coordinator.                                                        *)
(*                                                                         *)
(* A multiprocessing.Queue is a bounded semaphore, a per-process buffer    *)
(* drained by a feeder thread, and a pipe: put_nowait appends to the       *)
(* caller's buffer and counts the item at once (qsize), the feeder thread  *)
(* moves it to the pipe later, get reads the pipe.                         *)
(*                                                                         *)
(* Left out: the counter iters and the log and print calls, which decide   *)
(* nothing. get(timeout=0.1) raises queue.Empty when the pipe has stayed   *)
(* empty for the timeout: here, whenever the pipe is empty.                *)
(***************************************************************************)
EXTENDS Integers, Sequences, FiniteSets, TLC

\* ----- bounds of the model ------------------------------------------------
\* rows of the frame handed to reachability_filter, labelled 1..NumFeatures
NumFeatures == 4
\* worker processes of the pool: max_workers is drawn from 1..MaxWorkers
MaxWorkers == 2
\* pairs of distinct rows whose geometries intersect
MaxEdges == 2
\* irregularities of the input: rows outside the rectangle of the quick
\* filter, pairs the predicate fails on, rows named like the seed beyond one
MaxIrregular == 1
\* the returned frame alone (SpecFrame): the largest row label, and the most
\* rows reached
MaxLabel == 9
MaxReachedRows == 3
\* flatten (SpecFlatten): the most polygons of a multi-polygon, and the
\* largest x of the point a ring starts from
MaxRings == 3
MaxCoord == 2

VARIABLES
    close_enough,     \* rows passing the rectangle test of line 107
    seed_named,       \* rows whose "name" equals "Puget Sound"
    touching,         \* pairs {a, b} of distinct rows with intersecting geometry
    malformed,        \* pairs on which the intersection predicate raises
    max_workers,      \* size of the process pool
    pc,               \* position of the coordinator in reachability_filter
    pipe,             \* g_frontier: items readable by get, oldest first
    feeder,           \* g_frontier: per process, items put but not yet in the pipe
    reached,          \* the hash table of the Python set `reached`
    in_prog_futures,  \* indices (into futures) of the futures not yet seen done
    futures,          \* one record per pool.submit, in submission order
    worker,           \* per worker process: the future it is running, 0 if idle
    err,              \* the exception leaving reachability_filter, "none" if none
    result,           \* labels of the returned frame, in row order of that frame
    geoms,            \* run.py, flatten: mp.geoms, the exterior ring of each polygon
    flat_pc,          \* run.py, flatten: "call", then "returned" or "raised"
    flat_result,      \* run.py, flatten: the list `result`
    flat_polygon      \* run.py, flatten: exterior of the polygon returned

vars == <<close_enough, seed_named, touching, malformed, max_workers, pc, pipe,
          feeder, reached, in_prog_futures, futures, worker, err, result,
          geoms, flat_pc, flat_result, flat_polygon>>

\* the state of flatten (run.py), which reachability_filter never touches
stitch == <<geoms, flat_pc, flat_result, flat_polygon>>

\* flatten has not been called
NoStitch ==
    /\ geoms = <<>>
    /\ flat_pc = "idle"
    /\ flat_result = <<>>
    /\ flat_polygon = <<>>

inputs == <<close_enough, seed_named, touching, malformed, max_workers>>

Rows == 1..NumFeatures
Pairs == {p \in SUBSET Rows : Cardinality(p) = 2}
Workers == 1..MaxWorkers
\* process 0 is the coordinator, the others are the pool's workers
Procs == 0..MaxWorkers

\* ----- small helpers --------------------------------------------------------
Min(S) == CHOOSE x \in S : \A y \in S : x <= y

RECURSIVE Ascending(_)
\* the elements of a set of labels as a sequence in increasing order: the
\* iteration order of a frame's index, which keeps the input's row order
Ascending(S) == IF S = {} THEN <<>> ELSE <<Min(S)>> \o Ascending(S \ {Min(S)})

RECURSIVE SumLen(_, _)
SumLen(f, S) == IF S = {} THEN 0
                ELSE LET p == CHOOSE x \in S : TRUE
                     IN Len(f[p]) + SumLen(f, S \ {p})

\* a plausible slip: the rectangle filter of lines 106-108 is left out
GdfUnfiltered == Rows

\* ----- the frame after the rectangle filter ---------------------------------
\* gdf = gdf[close_enough] (line 108), later g_gdf (line 117): its index
Gdf == close_enough

\* a plausible slip: the name is looked up in the frame before the filter
SeedMatchesUnfiltered == Ascending(seed_named)

\* gdf[gdf["name"] == "Puget Sound"].index (line 112), in row order
SeedMatches == Ascending({r \in Gdf : r \in seed_named})

\* GeoSeries.intersects for one pair of rows: every geometry meets itself
Intersects(a, b) == a = b \/ {a, b} \in touching

\* a plausible slip: only the rows after start_idx are tested
TouchingIdxUpper(start_idx) ==
    Ascending({r \in Gdf : r > start_idx /\ Intersects(r, start_idx)})

\* a plausible slip: every row of the frame is put, touching or not
TouchingIdxAll(start_idx) == Ascending(Gdf)

\* g_gdf[is_touching].index (lines 96-98): the rows of g_gdf meeting start_idx
TouchingIdx(start_idx) == Ascending({r \in Gdf : Intersects(r, start_idx)})

\* line 97 raises when the predicate fails on some pair (start_idx, row of g_gdf)
PredicateRaises(start_idx) ==
    \E r \in Gdf : r # start_idx /\ {r, start_idx} \in malformed

\* ----- the Python set `reached` (CPython's open-addressing table) ----------
\* a table is a sequence of slots, slot k at position k + 1; Unused marks a
\* slot that holds no key
Unused == -1
SetMinSize == 8
LinearProbes == 9
PerturbDiv == 32

EmptyTable(size) == [k \in 1..size |-> Unused]

RECURSIVE ProbeSlot(_, _, _, _)
\* the slot where `key` is or goes: from slot i look at i..i+LinearProbes when
\* that run fits in the table, else at i alone; then jump by the perturbed
\* recurrence i := (5 i + 1 + perturb) mod size
ProbeSlot(table, key, i, perturb) ==
    LET size == Len(table)
        run == IF i + LinearProbes <= size - 1 THEN LinearProbes ELSE 0
        hits == {j \in i..(i + run) : table[j + 1] \in {Unused, key}}
        shifted == perturb \div PerturbDiv
    IN IF hits # {} THEN Min(hits)
       ELSE ProbeSlot(table, key, (i * 5 + 1 + shifted) % size, shifted)

\* hash(int) is the int itself for the labels of the model
SlotOf(table, key) == ProbeSlot(table, key, key % Len(table), key)

Used(table) == Cardinality({k \in 1..Len(table) : table[k] # Unused})

RECURSIVE GrowTo(_, _)
\* the table size after a resize asking for room for `minused` keys
GrowTo(size, minused) == IF size > minused THEN size ELSE GrowTo(size * 2, minused)

RECURSIVE InsertAll(_, _, _)
\* set_table_resize: the keys of the old table, in slot order, into a new one
InsertAll(old, k, new) ==
    IF k > Len(old) THEN new
    ELSE IF old[k] = Unused THEN InsertAll(old, k + 1, new)
    ELSE InsertAll(old, k + 1, [new EXCEPT ![SlotOf(new, old[k]) + 1] = old[k]])

\* key in reached (line 133)
SetContains(table, key) == \E k \in 1..Len(table) : table[k] = key

\* a plausible slip: the node is never recorded (line 135 left out)
SetAddNothing(table, key) == table

\* reached.add(key) (line 135)
SetAdd(table, key) ==
    IF SetContains(table, key) THEN table
    ELSE LET put == [table EXCEPT ![SlotOf(table, key) + 1] = key]
         IN IF Used(put) * 5 < (Len(put) - 1) * 3 THEN put
            ELSE InsertAll(put, 1, EmptyTable(GrowTo(SetMinSize, Used(put) * 4)))

\* list(reached) (line 137): the keys in slot order
ListOfSet(table) == SelectSeq(table, LAMBDA x : x # Unused)

ReachedSet == {reached[k] : k \in 1..Len(reached)} \ {Unused}

\* gdf.loc[labels] (line 137): the rows with these labels, in the order given
Loc(labels) == SelectSeq(labels, LAMBDA x : x \in Gdf)

\* ----- the queue g_frontier --------------------------------------------------
\* g_frontier.qsize(): the items put and not yet got, wherever they are
QSize == Len(pipe) + SumLen(feeder, Procs)

\* g_frontier.put_nowait(item), for every item of `items` in turn, in process p
PutAll(p, items) == [feeder EXCEPT ![p] = @ \o items]

\* ----- futures ---------------------------------------------------------------
FutureIds == 1..Len(futures)
IsDone(f) == futures[f].state \in {"finished", "raised"}
Pending == {f \in FutureIds : futures[f].state = "pending"}
AllDrained == \A f \in FutureIds : IsDone(f)

\* a plausible slip: the frontier size alone decides
LoopCondFrontierOnly == QSize > 0

\* the condition of the while loop (line 120)
LoopCond == QSize > 0 \/ Cardinality(in_prog_futures) > 0

\* a plausible slip: the membership test of line 133 is left out
AlreadyReachedNever(node) == FALSE

\* node in reached (line 133)
AlreadyReached(node) == SetContains(reached, node)

\* ----- initial states --------------------------------------------------------
\* how far an input is from the plain one (every row in the rectangle, one
\* row with the seed name, no pair the predicate fails on)
Irregular(close, named, bad) ==
    Cardinality(Rows \ close) + Cardinality(bad)
        + (IF named = {} THEN 0 ELSE Cardinality(named) - 1)

Init ==
    /\ close_enough \in {c \in SUBSET Rows : Cardinality(Rows \ c) <= MaxIrregular}
    /\ seed_named \in {n \in SUBSET Rows : Cardinality(n) <= MaxIrregular + 1}
    /\ touching \in {t \in SUBSET Pairs : Cardinality(t) <= MaxEdges}
    /\ malformed \in {m \in SUBSET Pairs : Cardinality(m) <= MaxIrregular}
    /\ Irregular(close_enough, seed_named, malformed) <= MaxIrregular
    /\ max_workers \in Workers
    /\ pc = "start"
    /\ pipe = <<>>
    /\ feeder = [p \in Procs |-> <<>>]
    /\ reached = EmptyTable(SetMinSize)
    /\ in_prog_futures = {}
    /\ futures = <<>>
    /\ worker = [w \in Workers |-> 0]
    /\ err = "none"
    /\ result = <<>>
    /\ NoStitch

\* ----- the coordinator: reachability_filter ----------------------------------
\* lines 106-112 when no row of the filtered frame has the seed name:
\* index[0] raises IndexError and nothing else has happened
SeedMissing ==
    /\ pc = "start"
    /\ SeedMatches = <<>>
    /\ pc' = "failed"
    /\ err' = "IndexError"
    /\ UNCHANGED <<stitch, inputs, pipe, feeder, reached, in_prog_futures, futures,
                   worker, result>>

\* lines 106-118 otherwise: the first match is put on the frontier
SeedFound ==
    /\ pc = "start"
    /\ SeedMatches # <<>>
    /\ feeder' = PutAll(0, <<SeedMatches[1]>>)
    /\ pc' = "loop"
    /\ UNCHANGED <<stitch, inputs, pipe, reached, in_prog_futures, futures, worker,
                   err, result>>

\* line 120, condition false: the loop is left
LoopExit ==
    /\ pc = "loop"
    /\ ~LoopCond
    /\ pc' = "exited"
    /\ UNCHANGED <<stitch, inputs, pipe, feeder, reached, in_prog_futures, futures,
                   worker, err, result>>

\* lines 120, 126, 133-134: the loop goes on, an item is got and is already
\* reached (between the test of line 120 and the get of line 126 the other
\* processes can only add items, so the two are taken as one step)
GetSeen ==
    /\ pc = "loop"
    /\ LoopCond
    /\ pipe # <<>>
    /\ AlreadyReached(Head(pipe))
    /\ pipe' = Tail(pipe)
    /\ pc' = "loop"
    /\ UNCHANGED <<stitch, inputs, feeder, reached, in_prog_futures, futures, worker,
                   err, result>>

\* lines 120, 126, 133-136: the loop goes on, an item is got, marked reached
\* and submitted to the pool
GetNew ==
    /\ pc = "loop"
    /\ LoopCond
    /\ pipe # <<>>
    /\ ~AlreadyReached(Head(pipe))
    /\ pipe' = Tail(pipe)
    /\ reached' = SetAdd(reached, Head(pipe))
    /\ futures' = Append(futures, [node |-> Head(pipe), state |-> "pending"])
    /\ in_prog_futures' = in_prog_futures \cup {Len(futures) + 1}
    /\ pc' = "loop"
    /\ UNCHANGED <<stitch, inputs, feeder, worker, err, result>>

\* lines 120, 126-127: the loop goes on, nothing is readable within the
\* timeout and get raises queue.Empty
GetEmpty ==
    /\ pc = "loop"
    /\ LoopCond
    /\ pipe = <<>>
    /\ pc' = "wait"
    /\ UNCHANGED <<stitch, inputs, pipe, feeder, reached, in_prog_futures, futures,
                   worker, err, result>>

\* a plausible slip: wait is taken to need a done future also for an empty set
WaitReturnsNonEmpty == \E f \in in_prog_futures : IsDone(f)

\* wait(in_prog_futures, return_when=FIRST_COMPLETED) returns at once for an
\* empty set and otherwise as soon as one of the futures is done (line 129)
WaitReturns == in_prog_futures = {} \/ \E f \in in_prog_futures : IsDone(f)

\* the first set wait returns: the futures done at that moment
DoneFutures == {f \in in_prog_futures : IsDone(f)}

\* a plausible slip: the second set wait returns is dropped
NotDoneFuturesDropped == {}

\* the second set wait returns, which becomes in_prog_futures (line 129)
NotDoneFutures == in_prog_futures \ DoneFutures

\* a plausible slip: the outcome is never looked at (lines 130-131 left out)
ResultRaisesNever(f) == FALSE

\* f.result() raises the exception stored in the future (line 131)
ResultRaises(f) == futures[f].state = "raised"

\* lines 129-132: no done future holds an exception
WaitOk ==
    /\ pc = "wait"
    /\ WaitReturns
    /\ \A f \in DoneFutures : ~ResultRaises(f)
    /\ in_prog_futures' = NotDoneFutures
    /\ pc' = "loop"
    /\ UNCHANGED <<stitch, inputs, pipe, feeder, reached, futures, worker, err, result>>

\* lines 129-131: f.result() raises; the with block is left by the exception
WaitRaise ==
    /\ pc = "wait"
    /\ WaitReturns
    /\ \E f \in DoneFutures : ResultRaises(f)
    /\ in_prog_futures' = NotDoneFutures
    /\ err' = "TaskError"
    /\ pc' = "shutdown"
    /\ UNCHANGED <<stitch, inputs, pipe, feeder, reached, futures, worker, result>>

\* line 119, __exit__ on an exception: shutdown(wait=True) runs every
\* submitted task to its end, then the exception reaches the caller
Shutdown ==
    /\ pc = "shutdown"
    /\ AllDrained
    /\ pc' = "failed"
    /\ UNCHANGED <<stitch, inputs, pipe, feeder, reached, in_prog_futures, futures,
                   worker, err, result>>

\* lines 119, 137-140: __exit__ after the loop, then the frame is returned
Return ==
    /\ pc = "exited"
    /\ AllDrained
    /\ result' = Loc(ListOfSet(reached))
    /\ pc' = "done"
    /\ UNCHANGED <<stitch, inputs, pipe, feeder, reached, in_prog_futures, futures,
                   worker, err>>

\* ----- the workers: find_neighbors -------------------------------------------
\* the pool hands the oldest pending call to an idle worker
CanStart(w) == w <= max_workers /\ worker[w] = 0 /\ Pending # {}

\* lines 95-99 without an exception: the predicate is evaluated against every
\* row of g_gdf and the label of every touching row is put, in row order;
\* the items sit in the worker's buffer, counted by qsize, until fed
TaskRun(w) ==
    /\ CanStart(w)
    /\ ~PredicateRaises(futures[Min(Pending)].node)
    /\ futures' = [futures EXCEPT ![Min(Pending)].state = "running"]
    /\ worker' = [worker EXCEPT ![w] = Min(Pending)]
    /\ feeder' = PutAll(w, TouchingIdx(futures[Min(Pending)].node))
    /\ UNCHANGED <<stitch, inputs, pc, pipe, reached, in_prog_futures, err, result>>

\* line 97 raises: nothing is put and the exception is stored in the future
TaskRaise(w) ==
    /\ CanStart(w)
    /\ PredicateRaises(futures[Min(Pending)].node)
    /\ futures' = [futures EXCEPT ![Min(Pending)].state = "raised"]
    /\ UNCHANGED <<stitch, inputs, pc, pipe, feeder, reached, in_prog_futures, worker,
                   err, result>>

\* find_neighbors has returned: the future is done and the worker is idle
TaskFinish(w) ==
    /\ worker[w] # 0
    /\ futures' = [futures EXCEPT ![worker[w]].state = "finished"]
    /\ worker' = [worker EXCEPT ![w] = 0]
    /\ UNCHANGED <<stitch, inputs, pc, pipe, feeder, reached, in_prog_futures, err, result>>

\* the feeder thread of process p writes its oldest buffered item to the pipe
Feed(p) ==
    /\ feeder[p] # <<>>
    /\ pipe' = Append(pipe, Head(feeder[p]))
    /\ feeder' = [feeder EXCEPT ![p] = Tail(@)]
    /\ UNCHANGED <<stitch, inputs, pc, reached, in_prog_futures, futures, worker, err, result>>

Next ==
    \/ SeedMissing
    \/ SeedFound
    \/ LoopExit
    \/ GetSeen
    \/ GetNew
    \/ GetEmpty
    \/ WaitOk
    \/ WaitRaise
    \/ Shutdown
    \/ Return
    \/ \E w \in Workers : TaskRun(w)
    \/ \E w \in Workers : TaskRaise(w)
    \/ \E w \in Workers : TaskFinish(w)
    \/ \E p \in Procs : Feed(p)

Spec == Init /\ [][Next]_vars

\* ----- the specification with scheduling ---------------------------------------
\* the steps of the coordinating process
Coordinator ==
    \/ SeedMissing \/ SeedFound \/ LoopExit \/ GetSeen \/ GetNew \/ GetEmpty
    \/ WaitOk \/ WaitRaise \/ Shutdown \/ Return

\* the steps of pool worker w
WorkerStep(w) == TaskRun(w) \/ TaskRaise(w) \/ TaskFinish(w)

\* every process that can take a step is scheduled in the end: the
\* coordinator, each pool worker and the feeder thread of each queue user
Fairness ==
    /\ WF_vars(Coordinator)
    /\ \A w \in Workers : WF_vars(WorkerStep(w))
    /\ \A p \in Procs : WF_vars(Feed(p))

SpecLive == Init /\ [][Next]_vars /\ Fairness

\* ----- the returned frame on its own ----------------------------------------
\* The last step of reachability_filter, lines 137-140, from the states in
\* which the loop has just been left: the frame has rows 0..MaxLabel, the rows
\* of `order` are the ones inside the rectangle, each intersects the next, and
\* the first is the seed, so that the search has reached them in that order.
RECURSIVE AddAll(_, _)
AddAll(keys, table) ==
    IF keys = <<>> THEN table ELSE AddAll(Tail(keys), SetAdd(table, Head(keys)))

ReachOrders ==
    UNION {{o \in [1..n -> 0..MaxLabel] : \A i, j \in 1..n : o[i] = o[j] => i = j}
           : n \in 1..MaxReachedRows}

InitFrame ==
    \E order \in ReachOrders :
        /\ close_enough = {order[i] : i \in 1..Len(order)}
        /\ seed_named = {order[1]}
        /\ touching = {{order[i], order[i + 1]} : i \in 1..(Len(order) - 1)}
        /\ malformed = {}
        /\ max_workers = 1
        /\ pc = "exited"
        /\ pipe = <<>>
        /\ feeder = [p \in Procs |-> <<>>]
        /\ reached = AddAll(order, EmptyTable(SetMinSize))
        /\ in_prog_futures = {}
        /\ futures = [i \in 1..Len(order) |-> [node |-> order[i], state |-> "finished"]]
        /\ worker = [w \in Workers |-> 0]
        /\ err = "none"
        /\ result = <<>>
        /\ NoStitch

NextFrame == Return

SpecFrame == InitFrame /\ [][NextFrame]_vars

\* ----- flatten (src/run.py) ---------------------------------------------------
\* A coordinate is a pair <<x, y>>; a ring is polygon.exterior.coords, a
\* closed sequence: its last coordinate repeats its first.  Distances are
\* compared, never used as numbers, so the square of dist stands for dist
\* (math.sqrt keeps the order of the sums of squares of the model).

\* line 71
DEBUG == TRUE

\* the exterior rings of the model: a triangle or a quadrilateral from a
\* start point of a small grid
Triangle(a) == <<a, <<a[1] + 1, a[2]>>, <<a[1], a[2] + 1>>, a>>
Quadrilateral(a) ==
    <<a, <<a[1] + 1, a[2]>>, <<a[1] + 1, a[2] + 1>>, <<a[1], a[2] + 1>>, a>>
StartPoints == (0..MaxCoord) \X (0..1)
RingShapes == {Triangle(a) : a \in StartPoints} \cup {Quadrilateral(a) : a \in StartPoints}
MultiPolygons == UNION {[1..n -> RingShapes] : n \in 0..MaxRings}

RECURSIVE Reversed(_)
\* list(reversed(coords)) (line 65)
Reversed(coords) ==
    IF coords = <<>> THEN <<>> ELSE Reversed(Tail(coords)) \o <<Head(coords)>>

\* dist (lines 46-47), squared
Dist2(a, b) == (a[1] - b[1]) * (a[1] - b[1]) + (a[2] - b[2]) * (a[2] - b[2])

\* Candidate.dist (lines 54-57), squared
CandidateDist(coords, a) ==
    LET dist_to_start == Dist2(a, coords[1])
        dist_to_end == Dist2(a, coords[Len(coords)])
    IN IF dist_to_start <= dist_to_end THEN dist_to_start ELSE dist_to_end

\* Candidate.get (lines 59-67) for a coordinate a; get(None) is coords itself
CandidateGet(coords, a) ==
    IF Dist2(a, coords[Len(coords)]) < Dist2(a, coords[1])
    THEN Reversed(coords) ELSE coords

RECURSIVE ExtendAll(_, _)
\* lines 73-75: result.extend(coords) for every polygon, in the order of mp.geoms
ExtendAll(rings, acc) ==
    IF rings = <<>> THEN acc ELSE ExtendAll(Tail(rings), acc \o Head(rings))

\* line 86: the first candidate, in dict order, at the least distance of target
Closest(rings, candidates, target) ==
    Min({i \in candidates :
            \A j \in candidates :
                CandidateDist(rings[i], target) <= CandidateDist(rings[j], target)})

RECURSIVE GreedyLoop(_, _, _)
\* lines 84-89: the while loop over the candidates left
GreedyLoop(rings, candidates, acc) ==
    IF candidates = {} THEN acc
    ELSE LET target == acc[Len(acc)]
             closest == Closest(rings, candidates, target)
         IN GreedyLoop(rings, candidates \ {closest},
                       acc \o CandidateGet(rings[closest], target))

\* lines 78-89: the branch taken when DEBUG is off, for at least one ring
FlattenGreedy(rings) == GreedyLoop(rings, (1..Len(rings)) \ {1}, rings[1])

\* line 82: candidates.pop(0) raises KeyError when there is no polygon; the
\* branch of lines 73-76 has no such step
FlattenRaises(rings) == ~DEBUG /\ rings = <<>>

\* a plausible slip: every ring is appended back to front
FlattenListReversed(rings) ==
    ExtendAll([i \in 1..Len(rings) |-> Reversed(rings[i])], <<>>)

\* a plausible slip: the first polygon is skipped
FlattenListButFirst(rings) ==
    IF rings = <<>> THEN <<>> ELSE ExtendAll(Tail(rings), <<>>)

\* lines 71-89: the list `result` when flatten does not raise
FlattenList(rings) == IF DEBUG THEN ExtendAll(rings, <<>>) ELSE FlattenGreedy(rings)

\* a plausible slip: the first coordinate is repeated without looking at the last
PolygonOfAlwaysClosing(coords) ==
    IF coords = <<>> THEN <<>> ELSE Append(coords, coords[1])

\* shapely.Polygon(result) (lines 76, 90): the exterior of the polygon built
\* from a coordinate list; a list that is not closed is closed by repeating
\* its first coordinate, an empty list gives the empty polygon
PolygonOf(coords) ==
    IF coords = <<>> THEN <<>>
    ELSE IF coords[1] = coords[Len(coords)] THEN coords
    ELSE Append(coords, coords[1])

\* flatten is called with one multi-polygon; nothing of reachability_filter runs
InitFlatten ==
    /\ close_enough = {}
    /\ seed_named = {}
    /\ touching = {}
    /\ malformed = {}
    /\ max_workers = 1
    /\ pc = "start"
    /\ pipe = <<>>
    /\ feeder = [p \in Procs |-> <<>>]
    /\ reached = EmptyTable(SetMinSize)
    /\ in_prog_futures = {}
    /\ futures = <<>>
    /\ worker = [w \in Workers |-> 0]
    /\ err = "none"
    /\ result = <<>>
    /\ geoms \in MultiPolygons
    /\ flat_pc = "call"
    /\ flat_result = <<>>
    /\ flat_polygon = <<>>

\* lines 70-90: one call of flatten
Flatten ==
    /\ flat_pc = "call"
    /\ flat_pc' = IF FlattenRaises(geoms) THEN "raised" ELSE "returned"
    /\ flat_result' = IF FlattenRaises(geoms) THEN <<>> ELSE FlattenList(geoms)
    /\ flat_polygon' = IF FlattenRaises(geoms) THEN <<>>
                       ELSE PolygonOf(FlattenList(geoms))
    /\ UNCHANGED <<inputs, pc, pipe, feeder, reached, in_prog_futures, futures,
                   worker, err, result, geoms>>

NextFlatten == Flatten

SpecFlatten == InitFlatten /\ [][NextFlatten]_vars

\* ----- properties --------------------------------------------------------------
\* the rows named like the seed that are in the filtered frame
NamedInFrame == seed_named \cap close_enough

\* the loop of reachability_filter has been left without an exception
LoopLeft == pc \in {"exited", "done"}

RECURSIVE Connected(_)
\* the rows of the frame joined to a row of S by a chain of rows, each
\* intersecting the next
Connected(S) ==
    LET T == S \cup {r \in Gdf : \E s \in S : r = s \/ {r, s} \in touching}
    IN IF T = S THEN S ELSE Connected(T)

RECURSIVE SerialSearch(_, _)
\* the search run by one process alone: every submitted task runs to its end
\* before the next item is taken from the frontier
SerialSearch(frontier, seen) ==
    IF frontier = <<>> THEN seen
    ELSE IF Head(frontier) \in seen THEN SerialSearch(Tail(frontier), seen)
    ELSE SerialSearch(Tail(frontier) \o TouchingIdx(Head(frontier)),
                      seen \cup {Head(frontier)})

\* C1 -- the loop is left only when the frontier holds no item, in the pipe
\* or on its way to it, and every submitted find_neighbors task has completed
C1_ExitOnlyWhenIdle ==
    LoopLeft => /\ QSize = 0
                /\ pipe = <<>>
                /\ \A p \in Procs : feeder[p] = <<>>
                /\ \A f \in FutureIds : IsDone(f)
                /\ \A w \in Workers : worker[w] = 0

C1_Witness == pc = "exited" /\ Len(futures) >= 3 /\ max_workers > 1

\* C2 -- when the loop is left the reached set is exactly the set of rows
\* joined to the seed by a chain of intersecting rows, the seed included;
\* nodes {1,2,3,4}, edges (1,2) and (2,3), seed 1 give {1,2,3}
C2_ReachedIsComponent ==
    LoopLeft => ReachedSet = Connected({SeedMatches[1]})

C2_Witness ==
    /\ pc = "done"
    /\ close_enough = {1, 2, 3, 4}
    /\ touching = {{1, 2}, {2, 3}}
    /\ SeedMatches[1] = 1
    /\ ReachedSet = {1, 2, 3}
    /\ 4 \notin ReachedSet

\* C3 -- the final reached set does not depend on the interleaving, on the
\* order of the frontier or on the pool size: it is the set the search run
\* by one process alone yields for the same frame and seed
C3_ReachedIsSchedulingFree ==
    LoopLeft => ReachedSet = SerialSearch(<<SeedMatches[1]>>, {})

C3_Witness == pc = "done" /\ max_workers > 1 /\ Cardinality(ReachedSet) >= 3

\* C4 -- at most one find_neighbors task is ever submitted per node, however
\* often the node is enqueued: no two futures are for the same node, a key is
\* in the reached set once, the reached set never shrinks, and a task is
\* submitted only in the step that adds its node to the reached set
C4_OneTaskPerNode ==
    /\ [](\A f, g \in FutureIds : futures[f].node = futures[g].node => f = g)
    /\ [](\A k, l \in 1..Len(reached) :
             reached[k] # Unused /\ reached[k] = reached[l] => k = l)
    /\ [][/\ ReachedSet \subseteq ReachedSet'
          /\ \A f \in (1..Len(futures')) \ FutureIds :
                 futures'[f].node \in ReachedSet' \ ReachedSet]_vars

C4_Witness ==
    \E i, j \in 1..Len(pipe) :
        i < j /\ pipe[i] = pipe[j] /\ AlreadyReached(pipe[i]) /\ Len(futures) >= 2

\* C5 -- if a find_neighbors task raises, reachability_filter never returns
\* normally; its exception reaches the caller only after every submitted task
\* has ended; on a normal return every future has been taken out of
\* in_prog_futures by wait and none of them raised
C5_TaskFailureSurfaces ==
    /\ (\E f \in FutureIds : futures[f].state = "raised") => ~LoopLeft
    /\ pc = "failed" /\ err = "TaskError" =>
           /\ \A f \in FutureIds : IsDone(f)
           /\ \E f \in FutureIds : futures[f].state = "raised"
    /\ LoopLeft => /\ in_prog_futures = {}
                   /\ \A f \in FutureIds : futures[f].state = "finished"

C5_Witness ==
    /\ pc = "failed"
    /\ err = "TaskError"
    /\ \E f \in FutureIds : futures[f].state = "finished"

\* C6 -- a pair on which the intersection predicate raises does not abort the
\* run: no exception of a task leaves reachability_filter
C6_MalformedPairDoesNotAbort == malformed # {} => err # "TaskError"

\* C7 -- with two or more rows matching the seed name the run aborts instead
\* of starting the search from one of them
C7_AmbiguousSeedIsFatal ==
    Cardinality(NamedInFrame) >= 2 => pc \in {"start", "failed"}

\* C8 -- with no row matching the seed name the run aborts, and nothing has
\* been put on the frontier, reached or submitted by then
C8_NoSeedIsFatal ==
    NamedInFrame = {} =>
        /\ pc \in {"start", "failed"}
        /\ pc = "failed" => err = "IndexError"
        /\ QSize = 0 /\ pipe = <<>>
        /\ ReachedSet = {}
        /\ futures = <<>>

C8_Witness == pc = "failed" /\ err = "IndexError" /\ seed_named # {}

\* C9 -- the returned frame holds exactly the reached rows, each once, in the
\* order they have in the input frame
C9_FrameInStoreOrder == pc = "done" => result = Ascending(ReachedSet)

\* C10 -- the coordinator is never blocked waiting for an in-flight task
\* while the frontier holds an item it could get
C10_NeverBlockedWithItem == pc = "wait" /\ ~WaitReturns => pipe = <<>>

\* ----- properties of flatten ------------------------------------------------
\* flatten has returned for a multi-polygon of at least one polygon
Flattened == flat_pc = "returned" /\ Len(geoms) >= 1

\* the orders in which k rings can be taken
Orders(k) == {o \in [1..k -> 1..k] : \A i, j \in 1..k : o[i] = o[j] => i = j}

RECURSIVE SumOfLens(_)
SumOfLens(rings) ==
    IF rings = <<>> THEN 0 ELSE Len(Head(rings)) + SumOfLens(Tail(rings))

RECURSIVE Joined(_)
\* the blocks of a sequence of coordinate lists, one after the other
Joined(blocks) == IF blocks = <<>> THEN <<>> ELSE Head(blocks) \o Joined(Tail(blocks))

\* a ring as the stitching rule appends it to a path ending at `last`:
\* back to front exactly when its last coordinate is the nearer one
AsRuled(ring, last) ==
    IF Dist2(last, ring[Len(ring)]) < Dist2(last, ring[1])
    THEN Reversed(ring) ELSE ring

RECURSIVE RuledPath(_, _, _, _)
\* the path that takes the rings in the order o, the first as given and every
\* later one as ruled by the end of the path so far
RuledPath(rings, o, j, acc) ==
    IF j > Len(rings) THEN acc
    ELSE RuledPath(rings, o, j + 1,
                   IF j = 1 THEN rings[o[1]]
                   ELSE acc \o AsRuled(rings[o[j]], acc[Len(acc)]))

\* the distance from `last` to the nearer end of a ring, squared
NearerEnd(ring, last) ==
    LET d1 == Dist2(last, ring[1])
        d2 == Dist2(last, ring[Len(ring)])
    IN IF d1 <= d2 THEN d1 ELSE d2

RECURSIVE NearestOrder(_, _, _)
\* the order of the nearest-endpoint rule: from the rings of `left`, the one
\* whose nearer end is closest to the end of the path, the first in input
\* order among equals; `taken` ends with the ring the path ends with
NearestOrder(rings, left, taken) ==
    IF left = {} THEN taken
    ELSE LET lastRing == rings[taken[Len(taken)]]
             last == lastRing[Len(lastRing)]
             best == Min({i \in left : \A j \in left :
                             NearerEnd(rings[i], last) <= NearerEnd(rings[j], last)})
         IN NearestOrder(rings, left \ {best}, Append(taken, best))

\* C11 -- the list built by flatten is as long as the rings together, and it
\* is the rings one after the other, each taken once as one block (in some
\* order, each as given or back to front)
C11_EveryRingOnce ==
    Flattened =>
        /\ Len(flat_result) = SumOfLens(geoms)
        /\ \E o \in Orders(Len(geoms)) :
           \E back \in SUBSET (1..Len(geoms)) :
               flat_result =
                   Joined([j \in 1..Len(geoms) |->
                              IF o[j] \in back THEN Reversed(geoms[o[j]])
                              ELSE geoms[o[j]]])

C11_Witness ==
    /\ flat_pc = "returned"
    /\ Len(geoms) = 3
    /\ Len(geoms[1]) # Len(geoms[2])
    /\ geoms[1][1] # geoms[2][1] /\ geoms[2][1] # geoms[3][1] /\ geoms[1][1] # geoms[3][1]
    /\ Len(flat_result) = 13

\* C12 -- after the first ring, flatten takes at every step the ring whose
\* nearer end is closest to the end of the path, the first in input order
\* among equals: rings starting at x = 0, 2, 1 on one line are visited in the
\* order x = 0, 1, 2
C12_NearestEndpointOrder ==
    Flattened =>
        LET o == NearestOrder(geoms, (1..Len(geoms)) \ {1}, <<1>>)
        IN \E back \in SUBSET (1..Len(geoms)) :
               flat_result =
                   Joined([j \in 1..Len(geoms) |->
                              IF o[j] \in back THEN Reversed(geoms[o[j]])
                              ELSE geoms[o[j]]])

\* C13 -- every ring after the first is appended back to front exactly when
\* its last coordinate is nearer to the end of the path than its first, and
\* the first ring is appended as given
C13_ReversedOnlyWhenNearer ==
    Flattened =>
        \E o \in Orders(Len(geoms)) : flat_result = RuledPath(geoms, o, 1, <<>>)

C13_Witness ==
    /\ flat_pc = "returned"
    /\ Len(geoms) = 3
    /\ geoms[1] # geoms[2] /\ geoms[2] # geoms[3]
    /\ geoms[2] # Reversed(geoms[2])
    /\ flat_result = geoms[1] \o geoms[2] \o geoms[3]

\* C14 -- for a multi-polygon of one polygon flatten yields the coordinates of
\* its ring, unchanged
C14_SingleRingUnchanged ==
    flat_pc = "returned" /\ Len(geoms) = 1 =>
        flat_result = geoms[1] /\ flat_polygon = geoms[1]

C14_Witness ==
    flat_pc = "returned" /\ Len(geoms) = 1 /\ Len(flat_polygon) = 5

\* C15 -- for a multi-polygon without polygons flatten ends in an error and
\* returns nothing
C15_EmptyIsFatal == geoms = <<>> => flat_pc \in {"idle", "call", "raised"}

\* ----- properties of the search, continued -----------------------------------
\* the labels on the frontier: in the pipe or still in a feeder buffer
InFrontier ==
    {pipe[i] : i \in 1..Len(pipe)}
        \cup UNION {{feeder[p][i] : i \in 1..Len(feeder[p])} : p \in Procs}

\* the rows find_neighbors has been submitted for
Submitted == {futures[f].node : f \in FutureIds}

C18_OnlyConnectedRows ==
    pc # "start" /\ SeedMatches # <<>> =>
        ReachedSet \cup InFrontier \subseteq Connected({SeedMatches[1]})

C18_Witness ==
    /\ pc = "loop"
    /\ SeedMatches # <<>>
    /\ Cardinality(ReachedSet) >= 2
    /\ pipe # <<>>
    /\ \E w \in Workers : feeder[w] # <<>>
    /\ \E r \in Gdf : r \notin Connected({SeedMatches[1]}) /\ \E q \in Gdf : {r, q} \in touching

RECURSIVE ChainInside(_)
\* the rows inside the rectangle joined to a row of S by a chain of
\* intersecting rows that are all inside the rectangle
ChainInside(S) ==
    LET T == S \cup {r \in close_enough : \E q \in S : {r, q} \in touching}
    IN IF T = S THEN S ELSE ChainInside(T)

\* C19 -- the seed, the frontier, the submitted tasks and the reached set are
\* rows inside the rectangle: a row outside it is never enqueued or reached,
\* whatever it intersects, and a row joined to the seed only through such a
\* row is not reached
C19_ConfinedToRectangle ==
    /\ ReachedSet \cup InFrontier \cup Submitted \subseteq close_enough
    /\ NamedInFrame # {} =>
           ReachedSet \cup InFrontier \subseteq ChainInside({Min(NamedInFrame)})
    /\ NamedInFrame = {} => ReachedSet \cup InFrontier = {}

C19_Witness ==
    /\ pc = "done"
    /\ \E far \in Rows \ close_enough :
           /\ \E r \in ReachedSet : {far, r} \in touching
           /\ \E c \in close_enough \ ReachedSet : {far, c} \in touching

\* C17 -- when no find_neighbors task raises and the seed is in the frame,
\* every task completing and every put item reaching the coordinator, the
\* loop of reachability_filter is left in the end: it neither spins nor
\* stays blocked in wait for ever
C17_LoopExits == (malformed = {} /\ NamedInFrame # {}) ~> LoopLeft

C17_Witness ==
    /\ pc = "exited"
    /\ malformed = {}
    /\ max_workers > 1
    /\ Cardinality(ReachedSet) >= 3
    /\ Len(futures) >= 3

====
